---- MODULE Spec2Model ----
(***************************************************************************)
(* Level / anchor trading state machine of the pyramid-strategy service:   *)
(* PyramidStrategyService (orchestration), LevelService (ladder, level     *)
(* states, anchor) and PositionService (position store).                   *)
(*                                                                         *)
(* All prices are integers in cents.  The symbol is fixed (SPXL): the      *)
(* service keeps one LevelService for the process, so lastPrices[symbol]   *)
(* is the single variable lastPrice.  JS null / undefined is Null.         *)
(***************************************************************************)
EXTENDS Integers, Sequences, FiniteSets, TLC

\* ------------------------------------------------------------------ bounds
\* number of price observations explored
MaxTicks == 4

\* prices a tick may observe (cents)
Prices == {17686, 18289, 19495, 19900, 20300, 21907}

\* largest small reference price the ladder is computed for (cents)
MaxRef == 150

\* accumulation records explored when closePosition is exercised on its own
MaxAccumulation == 2

\* price observations processed one after the other before calls overlap
MaxSerialTicks == 2

\* ------------------------------------------------------- program constants
Null == 0
NumLevels == 10
LevelStepPercent == 3
SellThresholdCents == 14
BaseDollarAmount == 3000
FallbackHighestPrice == 19900

Levels == 1..NumLevels

\* MAX(high) the database may hold when initialize() runs; Null = no rows
DbHighs == {Null, 20000}

\* highest prices the test-reset endpoint is called with
TestHighs == {20000}

Max2(a, b) == IF a >= b THEN a ELSE b
Min2(a, b) == IF a <= b THEN a ELSE b
Abs(x) == IF x < 0 THEN 0 - x ELSE x

\* Math.round(x * 100) / 100 for x = n / 100 cents, n >= 0: half rounds up
RoundCentsMutantTruncate(n) == n \div 100

RoundCents(n) == (n + 50) \div 100

\* ---------------------------------------------------------------- ladder
\* LevelService.calculateLevels: the two ladders for a highest price
CalcBelow(h) == [i \in Levels |-> RoundCents(h * (100 - LevelStepPercent * i))]
CalcAbove(h) == [i \in Levels |-> RoundCents(h * (100 + LevelStepPercent * i))]

NoLevels == [i \in Levels |-> Null]
NoStates == [i \in Levels |-> "untouched"]
NoCounts == [i \in Levels |-> 0]

\* stable ascending sort of a sequence by key[element]
\* (Array.prototype.sort with comparator a.key - b.key)
SortByKeyMutantNoSort(seq, key) == seq

RECURSIVE SortByKey(_, _)
SortByKey(seq, key) ==
    IF seq = <<>> THEN <<>>
    ELSE LET x == Head(seq)
             rest == SortByKey(Tail(seq), key)
             bigger == {j \in 1..Len(rest) : key[rest[j]] >= key[x]}
             idx == IF bigger = {} THEN Len(rest) + 1
                    ELSE CHOOSE j \in bigger : \A k \in bigger : j <= k
         IN SubSeq(rest, 1, idx - 1) \o <<x>> \o SubSeq(rest, idx, Len(rest))

\* the elements of a sequence as a set
Range(seq) == {seq[j] : j \in 1..Len(seq)}

\* -------------------------------------------------------- LevelService
\* LevelService.getSellTriggerPrice, case by case as in the switch
GetSellTriggerPriceMutantL1(s, buyLevel) ==
    CASE buyLevel = 1 -> IF s.above[2] # Null THEN s.above[2] - SellThresholdCents ELSE Null
      [] buyLevel = 2 -> s.highestPrice - SellThresholdCents
      [] OTHER -> IF buyLevel \in 3..10 /\ s.below[buyLevel - 2] # Null
                  THEN s.below[buyLevel - 2] - SellThresholdCents ELSE Null

GetSellTriggerPrice(s, buyLevel) ==
    CASE buyLevel = 1 -> IF s.above[1] # Null THEN s.above[1] - SellThresholdCents ELSE Null
      [] buyLevel = 2 -> s.highestPrice - SellThresholdCents
      [] buyLevel = 3 -> IF s.below[1] # Null THEN s.below[1] - SellThresholdCents ELSE Null
      [] buyLevel = 4 -> IF s.below[2] # Null THEN s.below[2] - SellThresholdCents ELSE Null
      [] buyLevel = 5 -> IF s.below[3] # Null THEN s.below[3] - SellThresholdCents ELSE Null
      [] buyLevel = 6 -> IF s.below[4] # Null THEN s.below[4] - SellThresholdCents ELSE Null
      [] buyLevel = 7 -> IF s.below[5] # Null THEN s.below[5] - SellThresholdCents ELSE Null
      [] buyLevel = 8 -> IF s.below[6] # Null THEN s.below[6] - SellThresholdCents ELSE Null
      [] buyLevel = 9 -> IF s.below[7] # Null THEN s.below[7] - SellThresholdCents ELSE Null
      [] buyLevel = 10 -> IF s.below[8] # Null THEN s.below[8] - SellThresholdCents ELSE Null
      [] OTHER -> Null

\* LevelService.isAnchorLevel
IsAnchorLevel(s, level) == s.anchorLevel = level

\* LevelService.shouldRecalculateLevels
ShouldRecalculateLevelsMutantAlways(s, currentPrice) == TRUE

ShouldRecalculateLevelsMutantPastOnly(s, currentPrice) ==
    IF s.above[1] = Null THEN TRUE ELSE currentPrice > s.above[1]

ShouldRecalculateLevels(s, currentPrice) ==
    IF s.above[1] = Null THEN TRUE ELSE currentPrice >= s.above[1]

\* LevelService.relocateAnchorToClosestLevel: the first level of the (new)
\* below ladder with the smallest |price - oldAnchorPrice|
ClosestLevel(below, oldAnchorPrice) ==
    CHOOSE l \in Levels :
        /\ \A m \in Levels : Abs(below[l] - oldAnchorPrice) <= Abs(below[m] - oldAnchorPrice)
        /\ \A m \in 1..(l - 1) : Abs(below[m] - oldAnchorPrice) > Abs(below[l] - oldAnchorPrice)

RelocateAnchorToClosestLevelMutantKeepIndex(s, oldAnchorPrice) == s

RelocateAnchorToClosestLevel(s, oldAnchorPrice) ==
    [s EXCEPT !.anchorLevel = ClosestLevel(s.below, oldAnchorPrice)]

\* LevelService.calculateLevels
CalculateLevelsMutantKeep(s) == s

CalculateLevelsMutantClearStates(s) ==
    [s EXCEPT !.below = CalcBelow(s.highestPrice), !.above = CalcAbove(s.highestPrice),
              !.levelStates = [l \in Levels |-> "untouched"],
              !.buyCounts = [l \in Levels |-> 0]]

CalculateLevels(s) ==
    [s EXCEPT !.below = CalcBelow(s.highestPrice), !.above = CalcAbove(s.highestPrice)]

\* LevelService.updateHighestPrice
UpdateHighestPrice(s, currentPrice) ==
    IF s.highestPrice = Null \/ currentPrice > s.highestPrice
    THEN LET s1 == [s EXCEPT !.highestPrice = currentPrice]
         IN IF ShouldRecalculateLevels(s1, currentPrice)
            THEN LET oldAnchorPrice == IF s.anchorLevel # Null THEN s.below[s.anchorLevel] ELSE Null
                     s2 == [CalculateLevels(s1) EXCEPT !.recalculated = TRUE]
                 IN IF oldAnchorPrice # Null
                    THEN RelocateAnchorToClosestLevel(s2, oldAnchorPrice)
                    ELSE s2
            ELSE s1
    ELSE s

\* LevelService.markLevelAsBought
MarkLevelAsBoughtMutantNoop(s, level) == s

MarkLevelAsBought(s, level) ==
    [s EXCEPT !.levelStates[level] = "bought", !.buyCounts[level] = @ + 1]

\* LevelService.markLevelAsSold
MarkLevelAsSoldMutantNoop(s, level) == s

MarkLevelAsSoldMutantUntouched(s, level) == [s EXCEPT !.levelStates[level] = "untouched"]

MarkLevelAsSold(s, level) == [s EXCEPT !.levelStates[level] = "sold"]

\* the dropped-through test of getAllTriggeredLevels
HasDroppedThrough(levelPrice, price, last) ==
    price <= levelPrice /\ (last = Null \/ last > levelPrice)

\* the level-state test of getAllTriggeredLevels: !levelState || 'sold'
TriggerStateMutantNoRebuy(levelState) == levelState = "untouched"

TriggerState(levelState) == levelState = "untouched" \/ levelState = "sold"

\* getAllTriggeredLevels reporting every triggered level as a first buy
GetAllTriggeredLevelsMutantNeverRebuy(s, price, last) ==
    IF last # Null /\ price >= last THEN <<>>
    ELSE LET entries == [i \in Levels |-> i]
             Triggered(l) == /\ HasDroppedThrough(s.below[l], price, last)
                             /\ TriggerState(s.levelStates[l])
             pushed == [j \in 1..Len(SelectSeq(entries, Triggered)) |->
                          LET l == SelectSeq(entries, Triggered)[j]
                          IN [level |-> l, price |-> s.below[l],
                              isRebuy |-> FALSE,
                              buyCount |-> s.buyCounts[l]]]
         IN SortByKey(pushed, [r \in Range(pushed) |-> r.price])

\* LevelService.getAllTriggeredLevels: the triggered level objects in the
\* order the code returns them (Object.entries order 1..10, then sorted by
\* price ascending)
GetAllTriggeredLevels(s, price, last) ==
    IF last # Null /\ price >= last THEN <<>>
    ELSE LET entries == [i \in Levels |-> i]
             Triggered(l) == /\ HasDroppedThrough(s.below[l], price, last)
                             /\ TriggerState(s.levelStates[l])
             pushed == [j \in 1..Len(SelectSeq(entries, Triggered)) |->
                          LET l == SelectSeq(entries, Triggered)[j]
                          IN [level |-> l, price |-> s.below[l],
                              isRebuy |-> s.levelStates[l] = "sold",
                              buyCount |-> s.buyCounts[l]]]
         IN SortByKey(pushed, [r \in Range(pushed) |-> r.price])

\* ------------------------------------------------------ PositionService
\* PositionService.calculateBuyDollarAmountForLevel (dollars)
CalculateBuyDollarAmountForLevelMutantPerBuy(level, levelBuyCount) ==
    BaseDollarAmount * level * (levelBuyCount + 1)

CalculateBuyDollarAmountForLevel(level, levelBuyCount) == BaseDollarAmount * level

\* Math.floor(dollarAmount / price), dollarAmount in dollars, price in cents
UnitsFor(dollarAmount, price) == (dollarAmount * 100) \div price

\* PositionService.createBuyPosition: INSERT ... RETURNING *; the id is the
\* index of the new row
CreateBuyPosition(s, price, level, buyCount, isAnchor) ==
    LET dollarAmount == CalculateBuyDollarAmountForLevel(level, buyCount)
        units == UnitsFor(dollarAmount, price)
        row == [level |-> level, price |-> price, units |-> units,
                total_value |-> units * price, dollar_amount |-> dollarAmount,
                status |-> "ACTIVE", is_anchor |-> isAnchor, closed_price |-> Null]
    IN [s EXCEPT !.positions = Append(@, row)]

\* PositionService.updatePositionAnchorFlag
UpdatePositionAnchorFlag(s, positionId, isAnchor) ==
    [s EXCEPT !.positions[positionId].is_anchor = isAnchor]

\* PositionService.addToExistingPosition
AddToExistingPosition(s, positionId, additionalUnits, additionalValue) ==
    [s EXCEPT !.positions[positionId].units = @ + additionalUnits,
              !.positions[positionId].total_value = @ + additionalValue]

\* PositionService.getActiveBuyPositions: ids of ACTIVE rows, oldest first
GetActiveBuyPositionsMutantAllRows(s) == [i \in 1..Len(s.positions) |-> i]

GetActiveBuyPositions(s) ==
    SelectSeq([i \in 1..Len(s.positions) |-> i],
              LAMBDA i : s.positions[i].status = "ACTIVE")

\* PositionService.getPositionForLevel: newest ACTIVE row of the level
GetPositionForLevel(s, level) ==
    LET ids == {i \in 1..Len(s.positions) :
                    s.positions[i].status = "ACTIVE" /\ s.positions[i].level = level}
    IN IF ids = {} THEN Null ELSE CHOOSE i \in ids : \A j \in ids : j <= i

\* the sellDetails closePosition computes for a row
UnitsToSell(pos, sellPrice) == UnitsFor(pos.dollar_amount, sellPrice)
RemainingUnits(pos, sellPrice) == Max2(0, pos.units - UnitsToSell(pos, sellPrice))

ActualUnitsToSellMutantUncapped(pos, sellPrice) == UnitsToSell(pos, sellPrice)

ActualUnitsToSell(pos, sellPrice) == Min2(UnitsToSell(pos, sellPrice), pos.units)

\* PositionService.addToLevelAccumulation
AddToLevelAccumulation(s, level, buyPrice, units, totalValue, originalPositionId) ==
    [s EXCEPT !.accumulation = Append(@, [level |-> level, buy_price |-> buyPrice,
                                          units |-> units, total_value |-> totalValue,
                                          original_position_id |-> originalPositionId])]

\* PositionService.closePosition
ClosePositionMutantPartial(s, positionId, sellPrice) ==
    LET position == s.positions[positionId]
        remainingUnits == RemainingUnits(position, sellPrice)
    IN IF remainingUnits > 0
       THEN [s EXCEPT !.positions[positionId].units = remainingUnits]
       ELSE [s EXCEPT !.positions[positionId].status = "CLOSED",
                      !.positions[positionId].closed_price = sellPrice]

ClosePosition(s, positionId, sellPrice) ==
    LET position == s.positions[positionId]
        remainingUnits == RemainingUnits(position, sellPrice)
        s1 == IF remainingUnits > 0
              THEN AddToLevelAccumulation(s, position.level, position.price, remainingUnits,
                                          remainingUnits * position.price, positionId)
              ELSE s
    IN [s1 EXCEPT !.positions[positionId].status = "CLOSED",
                  !.positions[positionId].closed_price = sellPrice]

\* closePosition's "Position ... not found" test on the SELECT result
PositionNotFound(s, positionId) == positionId \notin 1..Len(s.positions)

\* the sellDetails object closePosition returns
SellDetails(s, positionId, sellPrice) ==
    LET position == s.positions[positionId]
    IN [positionId |-> positionId,
        unitsSold |-> ActualUnitsToSell(position, sellPrice),
        unitsKept |-> RemainingUnits(position, sellPrice),
        sellPrice |-> sellPrice,
        dollarAmount |-> position.dollar_amount]

\* the sell test of PositionService.checkSellTriggers for one row
SellTestMutantNoAnchorCheck(s, pos, currentPrice) ==
    LET sellTriggerPrice == GetSellTriggerPrice(s, pos.level)
    IN sellTriggerPrice # Null /\ currentPrice >= sellTriggerPrice

SellTestMutantNoTrigger(s, pos, currentPrice) ==
    GetSellTriggerPrice(s, pos.level) # Null /\ ~IsAnchorLevel(s, pos.level)

SellTest(s, pos, currentPrice) ==
    LET sellTriggerPrice == GetSellTriggerPrice(s, pos.level)
        isAnchor == IsAnchorLevel(s, pos.level)
    IN sellTriggerPrice # Null /\ currentPrice >= sellTriggerPrice /\ ~isAnchor

\* PositionService.checkSellTriggers: ids of the rows to sell, sorted by
\* buy price ascending
PositionsToSell(s, currentPrice) ==
    LET activePositions == GetActiveBuyPositions(s)
        sortedPositions == SortByKey(activePositions,
                                     [i \in 1..Len(s.positions) |-> s.positions[i].price])
    IN SelectSeq(sortedPositions, LAMBDA i : SellTest(s, s.positions[i], currentPrice))

\* ------------------------------------------------ PyramidStrategyService
\* the sell loop of PyramidStrategyService.checkSellTriggers over the rows
\* PositionService.checkSellTriggers returned
RECURSIVE SellLoop(_, _, _)
SellLoop(s, toSell, price) ==
    IF toSell = <<>> THEN s
    ELSE LET id == Head(toSell)
             position == s.positions[id]
         IN IF position.is_anchor
            THEN SellLoop(s, Tail(toSell), price)
            ELSE LET s1 == ClosePosition(s, id, price)
                     s2 == MarkLevelAsSold(s1, position.level)
                     ev == [positionId |-> id, level |-> position.level,
                            buyPrice |-> position.price, sellPrice |-> price,
                            unitsSold |-> ActualUnitsToSell(position, price),
                            unitsKept |-> RemainingUnits(position, price),
                            sellTriggerPrice |-> GetSellTriggerPrice(s, position.level)]
                 IN SellLoop([s2 EXCEPT !.sold = Append(@, ev)], Tail(toSell), price)

\* PyramidStrategyService.checkSellTriggers
CheckSellTriggers(s, price) == SellLoop(s, PositionsToSell(s, price), price)

\* one iteration of the buy loop of checkBuyTriggers
BuyOne(s, buyLevel, price) ==
    LET levelBuyCount == s.buyCounts[buyLevel.level]
        dollarAmount == CalculateBuyDollarAmountForLevel(buyLevel.level, levelBuyCount)
        units == UnitsFor(dollarAmount, price)
        actualValue == units * price
        existingPosition == GetPositionForLevel(s, buyLevel.level)
        isAnchor == IsAnchorLevel(s, buyLevel.level)
        s1 == IF existingPosition # Null /\ buyLevel.isRebuy
              THEN AddToExistingPosition(s, existingPosition, units, actualValue)
              ELSE CreateBuyPosition(s, price, buyLevel.level, levelBuyCount, isAnchor)
        s2 == MarkLevelAsBought(s1, buyLevel.level)
        sellTriggerPrice == IF IsAnchorLevel(s2, buyLevel.level) THEN Null
                            ELSE GetSellTriggerPrice(s2, buyLevel.level)
        ev == [level |-> buyLevel.level, price |-> price, units |-> units,
               dollarAmount |-> dollarAmount, sellTriggerPrice |-> sellTriggerPrice,
               isRebuy |-> buyLevel.isRebuy, isAnchor |-> isAnchor]
    IN [s2 EXCEPT !.bought = Append(@, ev)]

\* the buy loop of checkBuyTriggers: for (const buyLevel of triggeredLevels)
BuyLoopMutantFirstOnly(s, triggeredLevels, price) ==
    IF triggeredLevels = <<>> THEN s ELSE BuyOne(s, Head(triggeredLevels), price)

RECURSIVE BuyLoop(_, _, _)
BuyLoop(s, triggeredLevels, price) ==
    IF triggeredLevels = <<>> THEN s
    ELSE BuyLoop(BuyOne(s, Head(triggeredLevels), price), Tail(triggeredLevels), price)

\* Math.max(...triggeredLevels.map(level => level.level))
DeepestLevelMutantMin(triggeredLevels) ==
    CHOOSE l \in {r.level : r \in Range(triggeredLevels)} :
        \A r \in Range(triggeredLevels) : l <= r.level

DeepestLevel(triggeredLevels) ==
    CHOOSE l \in {r.level : r \in Range(triggeredLevels)} :
        \A r \in Range(triggeredLevels) : r.level <= l

\* the anchor-flag update loop of checkBuyTriggers over the active rows
SetAnchorFlags(s, deepestLevel) ==
    [s EXCEPT !.positions =
        [i \in 1..Len(s.positions) |->
            IF s.positions[i].status = "ACTIVE"
            THEN [s.positions[i] EXCEPT !.is_anchor = (s.positions[i].level = deepestLevel)]
            ELSE s.positions[i]]]

\* the anchor decision at the end of checkBuyTriggers
AnchorMovesMutantAlways(anchorLevel, deepestLevel) == TRUE

AnchorMoves(anchorLevel, deepestLevel) ==
    anchorLevel = Null \/ deepestLevel > anchorLevel

\* PyramidStrategyService.checkBuyTriggers
CheckBuyTriggers(s, price) ==
    LET lastPrice == s.lastPrice
        triggeredLevels == GetAllTriggeredLevels(s, price, lastPrice)
        s1 == BuyLoop(s, triggeredLevels, price)
    IN IF Len(triggeredLevels) > 0
       THEN LET deepestLevel == DeepestLevel(triggeredLevels)
            IN IF AnchorMoves(s1.anchorLevel, deepestLevel)
               THEN SetAnchorFlags([s1 EXCEPT !.anchorLevel = deepestLevel], deepestLevel)
               ELSE s1
       ELSE s1

\* PyramidStrategyService.rebuildLevelStatesFromPositions
RECURSIVE RebuildLoop(_, _)
RebuildLoop(s, ids) ==
    IF ids = <<>> THEN s
    ELSE LET level == s.positions[Head(ids)].level
             s1 == [s EXCEPT !.levelStates[level] = "bought",
                             !.buyCounts[level] = @ + 1,
                             !.anchorLevel = IF @ = Null \/ level > @ THEN level ELSE @]
         IN RebuildLoop(s1, Tail(ids))

RebuildLevelStatesFromPositionsMutantNoop(s) == s

RebuildLevelStatesFromPositions(s) == RebuildLoop(s, GetActiveBuyPositions(s))

\* PyramidStrategyService.initialize; dbHigh is the MAX the query returns
Initialize(s, dbHigh) ==
    IF s.initialized THEN s
    ELSE LET h == IF dbHigh # Null THEN dbHigh ELSE FallbackHighestPrice
             s1 == UpdateHighestPrice(s, h)
             s2 == RebuildLevelStatesFromPositions(s1)
         IN [s2 EXCEPT !.initialized = TRUE]

\* PyramidStrategyService.resetStrategy
ResetStrategy(s) ==
    RebuildLevelStatesFromPositions(
        [s EXCEPT !.lastPrice = Null, !.levelStates = NoStates,
                  !.buyCounts = NoCounts, !.anchorLevel = Null])

\* LevelService.setHighestPriceForTest
SetHighestPriceForTest(s, price) == CalculateLevels([s EXCEPT !.highestPrice = price])

\* the order of the sell check and the highest-price update in a tick
SellThenUpdateMutantUpdateFirst(s, price) ==
    CheckSellTriggers(IF price > s.highestPrice /\ ~s.testMode
                      THEN UpdateHighestPrice(s, price) ELSE s, price)

SellThenUpdate(s, price) ==
    LET s1 == CheckSellTriggers(s, price)
    IN IF price > s1.highestPrice /\ ~s1.testMode
       THEN UpdateHighestPrice(s1, price)
       ELSE s1

\* PyramidStrategyService.processPriceUpdate
ProcessPriceUpdateMutantNoInit(s, price, dbHigh) ==
    LET s1 == [s EXCEPT !.newHigh = price > s.highestPrice]
        lastPrice == s1.lastPrice
        s2 == SellThenUpdate(s1, price)
        s3 == IF lastPrice = Null \/ price < lastPrice
              THEN CheckBuyTriggers(s2, price)
              ELSE s2
    IN [s3 EXCEPT !.lastPrice = price]

ProcessPriceUpdate(s, price, dbHigh) ==
    LET s0 == IF ~s.initialized THEN Initialize(s, dbHigh) ELSE s
        s1 == [s0 EXCEPT !.newHigh = price > s0.highestPrice]
        lastPrice == s1.lastPrice
        s2 == SellThenUpdate(s1, price)
        s3 == IF lastPrice = Null \/ price < lastPrice
              THEN CheckBuyTriggers(s2, price)
              ELSE s2
    IN [s3 EXCEPT !.lastPrice = price]

\* ids of the processPriceUpdate calls that may be in flight together
CallIds == {1, 2}

\* the locals of a processPriceUpdate call between two awaits
IdleCall ==
    [pc |-> "idle", price |-> Null, lastPrice |-> Null, toSell |-> <<>>,
     triggered |-> <<>>, deepest |-> Null, failed |-> FALSE]

NoCalls == [c \in CallIds |-> IdleCall]

\* the fields of a PyramidStrategyService and its LevelService as the
\* constructors leave them
ConstructedService ==
    [highestPrice |-> Null, below |-> NoLevels, above |-> NoLevels,
     levelStates |-> NoStates, buyCounts |-> NoCounts, anchorLevel |-> Null,
     testMode |-> FALSE, lastPrice |-> Null, initialized |-> FALSE]

\* ---------------------------------------------------------------- state
VARIABLES
    highestPrice,   \* LevelService.highestPrice
    below,          \* LevelService.levels.below[i].price
    above,          \* LevelService.levels.above[i].price
    levelStates,    \* LevelService.levelStates.below
    buyCounts,      \* LevelService.buyCounts["below_i"]
    anchorLevel,    \* LevelService.anchorLevel
    testMode,       \* LevelService.testMode
    lastPrice,      \* PyramidStrategyService.lastPrices[symbol]
    initialized,    \* PyramidStrategyService.initialized
    positions,      \* table position_tracking, row id = index
    accumulation,   \* table level_accumulation
    sold,           \* sell notifications of the last operation
    bought,         \* buy notifications of the last operation
    newHigh,        \* higher_price notification of the last operation
    recalculated,   \* the last operation recalculated the ladder
    tickCount,      \* number of processPriceUpdate calls so far
    everAnchor,     \* ids of the rows that have had is_anchor = true
    scen,           \* progress along the documented scenario, -1 = off it
    lastOp,         \* the operation that produced this state
    thrown,         \* the error the last operation threw to its caller
    calls,          \* the processPriceUpdate calls in flight, by call id
    base,           \* <<engine state>> when the first call in flight began
    other           \* the in-memory state of the second service instance

vars == <<highestPrice, below, above, levelStates, buyCounts, anchorLevel, testMode,
          lastPrice, initialized, positions, accumulation, sold, bought, newHigh,
          recalculated, tickCount, everAnchor, scen, lastOp, thrown, calls, base, other>>

\* the service state an operation starts from, notifications cleared
Cur ==
    [highestPrice |-> highestPrice, below |-> below, above |-> above,
     levelStates |-> levelStates, buyCounts |-> buyCounts, anchorLevel |-> anchorLevel,
     testMode |-> testMode, lastPrice |-> lastPrice, initialized |-> initialized,
     positions |-> positions, accumulation |-> accumulation,
     sold |-> <<>>, bought |-> <<>>, newHigh |-> FALSE, recalculated |-> FALSE]

\* the state a constructor leaves (LevelService, PyramidStrategyService)
Constructed(s) ==
    [s EXCEPT !.highestPrice = Null, !.below = NoLevels, !.above = NoLevels,
              !.levelStates = NoStates, !.buyCounts = NoCounts, !.anchorLevel = Null,
              !.testMode = FALSE, !.lastPrice = Null, !.initialized = FALSE]

AnchorFlagged(ps) == {i \in 1..Len(ps) : ps[i].is_anchor}

Commit(s) ==
    /\ highestPrice' = s.highestPrice
    /\ below' = s.below
    /\ above' = s.above
    /\ levelStates' = s.levelStates
    /\ buyCounts' = s.buyCounts
    /\ anchorLevel' = s.anchorLevel
    /\ testMode' = s.testMode
    /\ lastPrice' = s.lastPrice
    /\ initialized' = s.initialized
    /\ positions' = s.positions
    /\ accumulation' = s.accumulation
    /\ sold' = s.sold
    /\ bought' = s.bought
    /\ newHigh' = s.newHigh
    /\ recalculated' = s.recalculated
    /\ everAnchor' = everAnchor \cup AnchorFlagged(s.positions)

\* the documented scenario: reference 200.00, then the observations
\* 194.95, 199.00, 182.89; scen counts the observations matched so far
ScenStart(s, dbHigh) ==
    IF s = Constructed(s) /\ s.positions = <<>> /\ dbHigh = 20000 THEN 0 ELSE -1

ScenStep(k, price) ==
    CASE k = 0 /\ price = 19495 -> 1
      [] k = 1 /\ price = 19900 -> 2
      [] k = 2 /\ price = 18289 -> 3
      [] OTHER -> -1

Init ==
    /\ highestPrice = Null
    /\ below = NoLevels
    /\ above = NoLevels
    /\ levelStates = NoStates
    /\ buyCounts = NoCounts
    /\ anchorLevel = Null
    /\ testMode = FALSE
    /\ lastPrice = Null
    /\ initialized = FALSE
    /\ positions = <<>>
    /\ accumulation = <<>>
    /\ sold = <<>>
    /\ bought = <<>>
    /\ newHigh = FALSE
    /\ recalculated = FALSE
    /\ tickCount = 0
    /\ everAnchor = {}
    /\ scen = -1
    /\ lastOp = "construct"
    /\ calls = NoCalls
    /\ base = <<>>
    /\ other = ConstructedService
    /\ thrown = "none"

\* initialize() at module load / app start
DoInitialize ==
    /\ ~initialized
    /\ \E dbHigh \in DbHighs :
        /\ Commit(Initialize(Cur, dbHigh))
        /\ scen' = ScenStart(Cur, dbHigh)
    /\ lastOp' = "initialize"
    /\ UNCHANGED <<calls, base, other>>
    /\ thrown' = "none"
    /\ UNCHANGED tickCount

\* processPriceUpdate(symbol, price): monitoring tick or test endpoint
Tick ==
    /\ tickCount < MaxTicks
    /\ \E price \in Prices, dbHigh \in (IF initialized THEN {Null} ELSE DbHighs) :
        /\ Commit(ProcessPriceUpdate(Cur, price, dbHigh))
        /\ scen' = ScenStep(IF initialized THEN scen ELSE ScenStart(Cur, dbHigh), price)
    /\ lastOp' = "tick"
    /\ UNCHANGED <<calls, base, other>>
    /\ thrown' = "none"
    /\ tickCount' = tickCount + 1

\* POST /:symbol/reset
DoResetStrategy ==
    /\ Commit(ResetStrategy(Cur))
    /\ scen' = -1
    /\ lastOp' = "resetStrategy"
    /\ UNCHANGED <<calls, base, other>>
    /\ thrown' = "none"
    /\ UNCHANGED tickCount

\* POST /test/reset: resetStrategy, then setHighestPriceForTest
DoTestReset ==
    /\ \E h \in TestHighs : Commit(SetHighestPriceForTest(ResetStrategy(Cur), h))
    /\ scen' = -1
    /\ lastOp' = "testReset"
    /\ UNCHANGED <<calls, base, other>>
    /\ thrown' = "none"
    /\ UNCHANGED tickCount

\* POST /test/enable, /test/disable
EnableTestMode ==
    /\ ~testMode
    /\ Commit([Cur EXCEPT !.testMode = TRUE])
    /\ scen' = -1
    /\ lastOp' = "enableTestMode"
    /\ UNCHANGED <<calls, base, other>>
    /\ thrown' = "none"
    /\ UNCHANGED tickCount

DisableTestMode ==
    /\ testMode
    /\ Commit([Cur EXCEPT !.testMode = FALSE])
    /\ scen' = -1
    /\ lastOp' = "disableTestMode"
    /\ UNCHANGED <<calls, base, other>>
    /\ thrown' = "none"
    /\ UNCHANGED tickCount

\* the process restarts: the objects are constructed anew, the tables stay
Restart ==
    /\ initialized
    /\ Commit(Constructed(Cur))
    /\ scen' = -1
    /\ lastOp' = "restart"
    /\ UNCHANGED <<calls, base, other>>
    /\ thrown' = "none"
    /\ UNCHANGED tickCount

Next ==
    \/ DoInitialize
    \/ Tick
    \/ DoResetStrategy
    \/ DoTestReset
    \/ EnableTestMode
    \/ DisableTestMode
    \/ Restart

Spec == Init /\ [][Next]_vars

\* ------------------------------------------------ ladder specification
\* reference prices calculateLevels is applied to (cents)
RefPrices == (1..MaxRef) \cup {19900, 20000, 21907}

\* levels whose exact price reference * (1 -+ 3i/100) lies exactly half a
\* cent between two cents: the product is computed in binary floating
\* point, so Math.round sees a value just below or at the half and the
\* stored price is either neighbour
TiesBelow(h) == {i \in Levels : (h * (100 - LevelStepPercent * i)) % 100 = 50}
TiesAbove(h) == {i \in Levels : (h * (100 + LevelStepPercent * i)) % 100 = 50}

\* LevelService.calculateLevels with the levels in downB / downA rounded
\* to the lower neighbour
CalculateLevelsFloat(s, downB, downA) ==
    [s EXCEPT !.below = [i \in Levels |->
                            CalcBelow(s.highestPrice)[i] - (IF i \in downB THEN 1 ELSE 0)],
              !.above = [i \in Levels |->
                            CalcAbove(s.highestPrice)[i] - (IF i \in downA THEN 1 ELSE 0)]]

\* a constructed LevelService whose highestPrice has just been assigned
\* (updateHighestPrice, setHighestPriceForTest), before calculateLevels
InitLadder ==
    /\ highestPrice \in RefPrices
    /\ below = NoLevels
    /\ above = NoLevels
    /\ levelStates = NoStates
    /\ buyCounts = NoCounts
    /\ anchorLevel = Null
    /\ testMode = FALSE
    /\ lastPrice = Null
    /\ initialized = FALSE
    /\ positions = <<>>
    /\ accumulation = <<>>
    /\ sold = <<>>
    /\ bought = <<>>
    /\ newHigh = FALSE
    /\ recalculated = FALSE
    /\ tickCount = 0
    /\ everAnchor = {}
    /\ scen = -1
    /\ lastOp = "construct"
    /\ calls = NoCalls
    /\ base = <<>>
    /\ other = ConstructedService
    /\ thrown = "none"

\* LevelService.calculateLevels()
DoCalculateLevels ==
    /\ \E downB \in SUBSET TiesBelow(highestPrice), downA \in SUBSET TiesAbove(highestPrice) :
            Commit(CalculateLevelsFloat(Cur, downB, downA))
    /\ lastOp' = "calculateLevels"
    /\ UNCHANGED <<calls, base, other>>
    /\ thrown' = "none"
    /\ UNCHANGED <<tickCount, scen>>

NextLadder == DoCalculateLevels

SpecLadder == InitLadder /\ [][NextLadder]_vars

\* --------------------------------------- closePosition specification
\* buy prices, unit counts, planned dollar amounts and levels of the rows
\* closePosition is applied to, and the sell prices it is called with
CloseBuyPrices == {5000, 6000}
CloseUnits == {0, 1, 50, 60, 100}
CloseDollars == {3000, 6000}
CloseLevels == {1, 2}
CloseSellPrices == {2500, 5000, 6000, 300001}

CloseRows ==
    [level : CloseLevels, price : CloseBuyPrices, units : CloseUnits,
     total_value : {0}, dollar_amount : CloseDollars,
     status : {"ACTIVE", "CLOSED"}, is_anchor : BOOLEAN, closed_price : {Null}]

\* a constructed service over a position table that already holds one row
InitClose ==
    /\ highestPrice = Null
    /\ below = NoLevels
    /\ above = NoLevels
    /\ levelStates = NoStates
    /\ buyCounts = NoCounts
    /\ anchorLevel = Null
    /\ testMode = FALSE
    /\ lastPrice = Null
    /\ initialized = FALSE
    /\ positions \in {<<row>> : row \in CloseRows}
    /\ accumulation = <<>>
    /\ sold = <<>>
    /\ bought = <<>>
    /\ newHigh = FALSE
    /\ recalculated = FALSE
    /\ tickCount = 0
    /\ everAnchor = AnchorFlagged(positions)
    /\ scen = -1
    /\ lastOp = "construct"
    /\ calls = NoCalls
    /\ base = <<>>
    /\ other = ConstructedService
    /\ thrown = "none"

\* PositionService.closePosition(positionId, sellPrice, sellLevel)
DoClosePosition ==
    /\ Len(accumulation) < MaxAccumulation
    /\ \E positionId \in 1..(Len(positions) + 1), sellPrice \in CloseSellPrices :
        IF PositionNotFound(Cur, positionId)
        THEN /\ Commit(Cur)
             /\ thrown' = "Position not found"
        ELSE /\ Commit([ClosePosition(Cur, positionId, sellPrice) EXCEPT
                            !.sold = <<SellDetails(Cur, positionId, sellPrice)>>])
             /\ thrown' = "none"
    /\ lastOp' = "closePosition"
    /\ UNCHANGED <<calls, base, other>>
    /\ UNCHANGED <<tickCount, scen>>

\* the loop of PyramidStrategyService.sellLevelAtPrice over the active rows
\* of the level
RECURSIVE SellLevelLoop(_, _, _)
SellLevelLoop(s, ids, sellPrice) ==
    IF ids = <<>> THEN s
    ELSE LET id == Head(ids)
             s1 == ClosePosition(s, id, sellPrice)
             s2 == MarkLevelAsSold(s1, s.positions[id].level)
         IN SellLevelLoop([s2 EXCEPT !.sold = Append(@, SellDetails(s, id, sellPrice))],
                          Tail(ids), sellPrice)

\* PyramidStrategyService.sellLevelAtPrice(symbol, sellPrice, level)
SellLevelAtPrice(s, sellPrice, level) ==
    SellLevelLoop(s, SelectSeq(GetActiveBuyPositions(s),
                               LAMBDA i : s.positions[i].level = level), sellPrice)

DoSellLevelAtPrice ==
    /\ Len(accumulation) < MaxAccumulation
    /\ \E sellPrice \in CloseSellPrices, level \in CloseLevels :
        Commit(SellLevelAtPrice(Cur, sellPrice, level))
    /\ thrown' = "none"
    /\ lastOp' = "sellLevelAtPrice"
    /\ UNCHANGED <<calls, base, other>>
    /\ UNCHANGED <<tickCount, scen>>

NextClose ==
    \/ DoClosePosition
    \/ DoSellLevelAtPrice

SpecClose == InitClose /\ [][NextClose]_vars

\* ------------------------------------ processPriceUpdate, await by await
\* A processPriceUpdate call runs on the event loop: it gives up control at
\* every await of a database query and another call resumes or begins.
\* The steps below are the stretches of one call between such awaits.

\* prices of the calls that overlap
CallPrices == {18289, 19495, 19900}

\* the engine state two executions are compared on
EngineOf(s) ==
    [levelStates |-> s.levelStates, buyCounts |-> s.buyCounts,
     anchorLevel |-> s.anchorLevel, below |-> s.below, above |-> s.above,
     highestPrice |-> s.highestPrice, lastPrice |-> s.lastPrice,
     positions |-> s.positions, accumulation |-> s.accumulation]

InFlight(c) == calls[c].pc \notin {"idle", "done"}

\* processPriceUpdate: this.lastPrices[symbol] = price, and the call returns
Finish(s, call) ==
    [s |-> [s EXCEPT !.lastPrice = call.price], call |-> [call EXCEPT !.pc = "done"]]

\* checkBuyTriggers from its start to its first await
BuyStart(s, call) ==
    LET triggeredLevels == GetAllTriggeredLevels(s, call.price, s.lastPrice)
    IN IF triggeredLevels = <<>> THEN Finish(s, call)
       ELSE [s |-> s,
             call |-> [call EXCEPT !.pc = "buyLoop", !.triggered = triggeredLevels,
                                   !.deepest = DeepestLevel(triggeredLevels)]]

\* processPriceUpdate from the return of checkSellTriggers to the next await
AfterSell(s, call) ==
    LET s1 == IF call.price > s.highestPrice /\ ~s.testMode
              THEN UpdateHighestPrice(s, call.price) ELSE s
    IN IF call.lastPrice = Null \/ call.price < call.lastPrice
       THEN BuyStart(s1, call)
       ELSE Finish(s1, call)

\* the end of checkBuyTriggers after the last buy: the anchor decision
AnchorPart(s, call) ==
    IF AnchorMoves(s.anchorLevel, call.deepest)
    THEN [s |-> [s EXCEPT !.anchorLevel = call.deepest],
          call |-> [call EXCEPT !.pc = "anchorFlags"]]
    ELSE Finish(s, call)

CommitCall(c, r) ==
    /\ Commit(r.s)
    /\ calls' = [calls EXCEPT ![c] = r.call]

\* processPriceUpdate(symbol, price) up to the query of checkSellTriggers
StartCall(c, price) ==
    /\ initialized
    /\ calls[c].pc = "idle"
    /\ Commit([Cur EXCEPT !.newHigh = price > highestPrice])
    /\ calls' = [calls EXCEPT ![c] = [IdleCall EXCEPT !.pc = "sellQuery", !.price = price,
                                                       !.lastPrice = lastPrice]]
    /\ base' = IF \A d \in CallIds : calls[d].pc = "idle" THEN <<EngineOf(Cur)>> ELSE base
    /\ lastOp' = "startCall"
    /\ thrown' = "none"
    /\ UNCHANGED <<tickCount, scen, other>>

\* two calls may be in flight together: the monitoring tick and a test or
\* API price update
StartOverlapping == \E c \in CallIds, price \in CallPrices : StartCall(c, price)

\* getActiveBuyPositions returns: PositionService.checkSellTriggers picks
\* the rows to sell, PyramidStrategyService.checkSellTriggers skips the
\* flagged ones and reaches the first closePosition
StepSellQuery ==
    \E c \in CallIds :
        /\ calls[c].pc = "sellQuery"
        /\ LET ids == SelectSeq(PositionsToSell(Cur, calls[c].price),
                                LAMBDA i : ~positions[i].is_anchor)
               call == [calls[c] EXCEPT !.pc = "sellLoop", !.toSell = ids]
           IN CommitCall(c, IF ids = <<>> THEN AfterSell(Cur, call)
                            ELSE [s |-> Cur, call |-> call])
        /\ lastOp' = "sellQuery"
        /\ thrown' = "none"
        /\ UNCHANGED <<tickCount, scen, base, other>>

\* closePosition returns for the next row: markLevelAsSold, notification
StepSellLoop ==
    \E c \in CallIds :
        /\ calls[c].pc = "sellLoop"
        /\ LET id == Head(calls[c].toSell)
               s1 == MarkLevelAsSold(ClosePosition(Cur, id, calls[c].price),
                                     positions[id].level)
               s2 == [s1 EXCEPT !.sold = <<SellDetails(Cur, id, calls[c].price)>>]
               call == [calls[c] EXCEPT !.toSell = Tail(@)]
           IN CommitCall(c, IF call.toSell = <<>> THEN AfterSell(s2, call)
                            ELSE [s |-> s2, call |-> call])
        /\ lastOp' = "sellLoop"
        /\ thrown' = "none"
        /\ UNCHANGED <<tickCount, scen, base, other>>

\* the queries of one iteration of the buy loop return: markLevelAsBought
StepBuyLoop ==
    \E c \in CallIds :
        /\ calls[c].pc = "buyLoop"
        /\ LET s1 == BuyOne(Cur, Head(calls[c].triggered), calls[c].price)
               call == [calls[c] EXCEPT !.triggered = Tail(@)]
           IN CommitCall(c, IF call.triggered = <<>> THEN AnchorPart(s1, call)
                            ELSE [s |-> s1, call |-> call])
        /\ lastOp' = "buyLoop"
        /\ thrown' = "none"
        /\ UNCHANGED <<tickCount, scen, base, other>>

\* the anchor-flag updates over the active rows return
StepAnchorFlags ==
    \E c \in CallIds :
        /\ calls[c].pc = "anchorFlags"
        /\ CommitCall(c, Finish(SetAnchorFlags(Cur, calls[c].deepest), calls[c]))
        /\ lastOp' = "anchorFlags"
        /\ thrown' = "none"
        /\ UNCHANGED <<tickCount, scen, base, other>>

\* a price observation processed with no other call in flight
SerialTick ==
    /\ calls = NoCalls
    /\ tickCount < MaxSerialTicks
    /\ Tick

NextConc ==
    \/ DoInitialize
    \/ SerialTick
    \/ StartOverlapping
    \/ StepSellQuery
    \/ StepSellLoop
    \/ StepBuyLoop
    \/ StepAnchorFlags

SpecConc == Init /\ [][NextConc]_vars

\* ------------------------------------------- two service instances
\* The process constructs two PyramidStrategyService objects, one in the
\* controller module and one in the application module; each initializes
\* itself, starts its own monitoring timer and works on the same tables.

\* the in-memory fields of service state s
ServiceOf(s) == [f \in DOMAIN ConstructedService |-> s[f]]

\* service state s with the in-memory fields replaced by those of o
WithService(s, o) ==
    [s EXCEPT !.highestPrice = o.highestPrice, !.below = o.below, !.above = o.above,
              !.levelStates = o.levelStates, !.buyCounts = o.buyCounts,
              !.anchorLevel = o.anchorLevel, !.testMode = o.testMode,
              !.lastPrice = o.lastPrice, !.initialized = o.initialized]

\* initialize() of the second instance
OtherInitialize ==
    /\ ~other.initialized
    /\ \E dbHigh \in DbHighs :
        other' = ServiceOf(Initialize(WithService(Cur, other), dbHigh))
    /\ Commit(Cur)
    /\ lastOp' = "otherInitialize"
    /\ thrown' = "none"
    /\ UNCHANGED <<tickCount, scen, calls, base>>

\* a new intraday price: the activeMonitoringTick of each instance reads it
\* and calls its own processPriceUpdate
MonitoringRound ==
    /\ tickCount < MaxTicks
    /\ \E price \in Prices, dbHigh \in DbHighs :
        LET a == ProcessPriceUpdate(Cur, price, dbHigh)
            b == ProcessPriceUpdate(
                    WithService([Cur EXCEPT !.positions = a.positions,
                                            !.accumulation = a.accumulation], other),
                    price, dbHigh)
        IN /\ Commit([a EXCEPT !.positions = b.positions,
                               !.accumulation = b.accumulation,
                               !.sold = a.sold \o b.sold,
                               !.bought = a.bought \o b.bought])
           /\ other' = ServiceOf(b)
    /\ tickCount' = tickCount + 1
    /\ lastOp' = "monitoringRound"
    /\ thrown' = "none"
    /\ UNCHANGED <<scen, calls, base>>

NextTwo ==
    \/ DoInitialize
    \/ OtherInitialize
    \/ MonitoringRound

SpecTwo == Init /\ [][NextTwo]_vars

\* ------------------------------------------------ failing store writes
\* a call begins when no other is in flight; ids are given in arrival order
StartAlone ==
    \E c \in CallIds, price \in CallPrices :
        /\ \A d \in CallIds : ~InFlight(d)
        /\ \A d \in CallIds : d < c => calls[d].pc = "done"
        /\ StartCall(c, price)

\* the write the call is waiting for (closePosition, createBuyPosition or
\* addToExistingPosition, updatePositionAnchorFlag) is rejected: the
\* exception unwinds to the catch of processPriceUpdate, which logs it
FailWrite ==
    \E c \in CallIds :
        /\ \/ calls[c].pc \in {"sellLoop", "buyLoop"}
           \/ /\ calls[c].pc = "anchorFlags"
              /\ \E i \in 1..Len(positions) :
                    /\ positions[i].status = "ACTIVE"
                    /\ positions[i].is_anchor # (positions[i].level = calls[c].deepest)
        /\ Commit(Cur)
        /\ calls' = [calls EXCEPT ![c].pc = "done", ![c].failed = TRUE]
        /\ lastOp' = "failWrite"
        /\ thrown' = "none"
        /\ UNCHANGED <<tickCount, scen, base, other>>

NextFail ==
    \/ DoInitialize
    \/ SerialTick
    \/ StartAlone
    \/ StepSellQuery
    \/ StepSellLoop
    \/ StepBuyLoop
    \/ StepAnchorFlags
    \/ FailWrite

SpecFail == Init /\ [][NextFail]_vars

\* --------------------------------------------- anomalous observations
\* non-positive prices a caller may pass: -1.00 (cents)
BadPrices == {-100}

\* processPriceUpdate(symbol, price) with a non-positive price, from POST
\* /test/price (which refuses only a missing or falsy price) or from the
\* monitoring tick
BadTick ==
    /\ tickCount < MaxSerialTicks
    /\ \E price \in BadPrices, dbHigh \in (IF initialized THEN {Null} ELSE DbHighs) :
        Commit(ProcessPriceUpdate(Cur, price, dbHigh))
    /\ scen' = -1
    /\ lastOp' = "badTick"
    /\ thrown' = "none"
    /\ tickCount' = tickCount + 1
    /\ UNCHANGED <<calls, base, other>>

NextBad ==
    \/ DoInitialize
    \/ Tick
    \/ BadTick

SpecBad == Init /\ [][NextBad]_vars

\* ------------------------------------------- the new-high notification
\* prices of the calls whose notifications are followed (cents)
NotifyPrices == {18289, 20300}

\* processPriceUpdate(symbol, price) up to its first await: for a price
\* above highestPrice checkHigherPriceTrigger builds the higher_price
\* notification, hands it to the Telegram notifier and awaits
\* sendHigherPriceWebhook, which awaits fetch; otherwise the call goes on
\* to the query of checkSellTriggers
StartNotifying ==
    \E c \in CallIds, price \in NotifyPrices :
        /\ initialized
        /\ \A d \in CallIds : ~InFlight(d)
        /\ \A d \in CallIds : d < c => calls[d].pc = "done"
        /\ calls[c].pc = "idle"
        /\ Commit([Cur EXCEPT !.newHigh = price > highestPrice])
        /\ calls' = [calls EXCEPT ![c] =
                        [IdleCall EXCEPT !.pc = IF price > highestPrice THEN "webhook"
                                               ELSE "sellQuery",
                                         !.price = price, !.lastPrice = lastPrice]]
        /\ base' = IF \A d \in CallIds : calls[d].pc = "idle" THEN <<EngineOf(Cur)>> ELSE base
        /\ lastOp' = "startNotifying"
        /\ thrown' = "none"
        /\ UNCHANGED <<tickCount, scen, other>>

\* the fetch of sendHigherPriceWebhook settles: a response (ok or not) is
\* logged, a rejection is caught and logged; checkHigherPriceTrigger returns
\* and the call reaches the query of checkSellTriggers.  A fetch that never
\* settles leaves the call where it is.
WebhookSettles ==
    \E c \in CallIds :
        /\ calls[c].pc = "webhook"
        /\ Commit(Cur)
        /\ calls' = [calls EXCEPT ![c].pc = "sellQuery"]
        /\ lastOp' = "webhookSettles"
        /\ thrown' = "none"
        /\ UNCHANGED <<tickCount, scen, base, other>>

NextNotify ==
    \/ DoInitialize
    \/ SerialTick
    \/ StartNotifying
    \/ WebhookSettles
    \/ StepSellQuery
    \/ StepSellLoop
    \/ StepBuyLoop
    \/ StepAnchorFlags

SpecNotify == Init /\ [][NextNotify]_vars

\* ------------------------------------------------ prices of a few cents
\* At references below 0.34 rounding to cents gives neighbouring levels the
\* same price, so a level index and a level price are no longer the same
\* thing.

\* MAX(high) the database holds, and the prices observed (cents)
PennyHighs == {9}
PennyPrices == {7, 8, 9, 10, 11}

\* initialize() over a database whose highest price is a few cents
PennyInitialize ==
    /\ ~initialized
    /\ \E dbHigh \in PennyHighs : Commit(Initialize(Cur, dbHigh))
    /\ scen' = -1
    /\ lastOp' = "initialize"
    /\ thrown' = "none"
    /\ UNCHANGED <<tickCount, calls, base, other>>

\* processPriceUpdate(symbol, price) at a price of a few cents
PennyTick ==
    /\ initialized
    /\ tickCount < MaxTicks
    /\ \E price \in PennyPrices : Commit(ProcessPriceUpdate(Cur, price, Null))
    /\ scen' = -1
    /\ lastOp' = "tick"
    /\ thrown' = "none"
    /\ tickCount' = tickCount + 1
    /\ UNCHANGED <<calls, base, other>>

NextPenny ==
    \/ PennyInitialize
    \/ PennyTick

SpecPenny == Init /\ [][NextPenny]_vars

\* ------------------------------------------- ticks over process restarts
\* price observations one after the other, the process restarting in
\* between: no reset, no test endpoints
NextTicks ==
    \/ DoInitialize
    \/ Tick
    \/ Restart

SpecTicks == Init /\ [][NextTicks]_vars

\* ------------------------------------- sell-trigger ladder specification
\* LevelService.updateHighestPrice(currentPrice) on a calculated ladder, for
\* every higher price up to the first level above: the prices below it
\* advance highestPrice and keep the ladder, the last one recalculates
DoUpdateHighestPrice ==
    /\ lastOp \in {"calculateLevels", "updateHighestPrice"}
    /\ highestPrice <= MaxRef
    /\ \E p \in (highestPrice + 1)..Max2(above[1], highestPrice + 1) :
            Commit(UpdateHighestPrice(Cur, p))
    /\ lastOp' = "updateHighestPrice"
    /\ thrown' = "none"
    /\ UNCHANGED <<tickCount, scen, calls, base, other>>

NextTrigger ==
    \/ DoCalculateLevels
    \/ DoUpdateHighestPrice

SpecTrigger == InitLadder /\ [][NextTrigger]_vars

\* ------------------------------------- closePosition failing half way
\* closePosition for the next row: the SELECT and the accumulation INSERT
\* of the kept units succeed, the UPDATE that closes the row is rejected;
\* the two are separate statements without a transaction. The exception
\* unwinds to the catch of processPriceUpdate: the level is not marked
\* sold and the last price is not stored
ClosePositionUpdateFails ==
    \E c \in CallIds :
        /\ calls[c].pc = "sellLoop"
        /\ LET id == Head(calls[c].toSell)
               position == positions[id]
               remainingUnits == RemainingUnits(position, calls[c].price)
           IN Commit(IF remainingUnits > 0
                     THEN AddToLevelAccumulation(Cur, position.level, position.price,
                                                 remainingUnits,
                                                 remainingUnits * position.price, id)
                     ELSE Cur)
        /\ calls' = [calls EXCEPT ![c].pc = "done", ![c].failed = TRUE]
        /\ lastOp' = "closePositionUpdateFails"
        /\ thrown' = "none"
        /\ UNCHANGED <<tickCount, scen, base, other>>

NextRetry ==
    \/ DoInitialize
    \/ SerialTick
    \/ StartAlone
    \/ StepSellQuery
    \/ StepSellLoop
    \/ StepBuyLoop
    \/ StepAnchorFlags
    \/ ClosePositionUpdateFails

SpecRetry == Init /\ [][NextRetry]_vars

\* ------------------------------------------ overlapping initialize()
\* initialize() is invoked without being awaited when the controller
\* module loads and again, awaited, by the first processPriceUpdate or
\* getStrategyStatus that finds initialized false. An invocation is
\* suspended twice, on the highest-price query and on the query of
\* rebuildLevelStatesFromPositions; a call record holds its position.

\* initialize() is entered: `if (this.initialized) return`, else the
\* highest-price query is sent
InvokeInitialize ==
    \E c \in CallIds :
        /\ calls[c].pc = "idle"
        /\ \A d \in CallIds : d < c => calls[d].pc # "idle"
        /\ Commit(Cur)
        /\ calls' = [calls EXCEPT ![c].pc = IF initialized THEN "done" ELSE "initQuery"]
        /\ lastOp' = "invokeInitialize"
        /\ thrown' = "none"
        /\ scen' = -1
        /\ UNCHANGED <<tickCount, base, other>>

\* the highest-price query returns: updateHighestPrice, then
\* rebuildLevelStatesFromPositions sends its query
InitializeQueryReturns ==
    \E c \in CallIds, dbHigh \in DbHighs :
        /\ calls[c].pc = "initQuery"
        /\ Commit(UpdateHighestPrice(Cur, IF dbHigh # Null THEN dbHigh
                                          ELSE FallbackHighestPrice))
        /\ calls' = [calls EXCEPT ![c].pc = "initRebuild"]
        /\ lastOp' = "initializeQueryReturns"
        /\ thrown' = "none"
        /\ scen' = -1
        /\ UNCHANGED <<tickCount, base, other>>

\* getActiveBuyPositions returns: the rebuild loop, startActiveMonitoring
\* (the invocation now owns a running interval) and initialized = true
InitializeRebuildReturns ==
    \E c \in CallIds :
        /\ calls[c].pc = "initRebuild"
        /\ Commit([RebuildLevelStatesFromPositions(Cur) EXCEPT !.initialized = TRUE])
        /\ calls' = [calls EXCEPT ![c].pc = "monitoring"]
        /\ lastOp' = "initializeRebuildReturns"
        /\ thrown' = "none"
        /\ scen' = -1
        /\ UNCHANGED <<tickCount, base, other>>

\* the process restarts with no invocation suspended: objects and timers
\* are gone, the tables stay
RestartProcess ==
    /\ initialized
    /\ \A c \in CallIds : calls[c].pc \in {"idle", "done", "monitoring"}
    /\ Commit(Constructed(Cur))
    /\ calls' = NoCalls
    /\ scen' = -1
    /\ lastOp' = "restart"
    /\ thrown' = "none"
    /\ UNCHANGED <<tickCount, base, other>>

\* the intervals startActiveMonitoring has set and nothing has cleared
MonitoringIntervals == Cardinality({c \in CallIds : calls[c].pc = "monitoring"})

NextInit ==
    \/ SerialTick
    \/ RestartProcess
    \/ InvokeInitialize
    \/ InitializeQueryReturns
    \/ InitializeRebuildReturns

SpecInit == Init /\ [][NextInit]_vars

\* ================================================================ claims
ActiveRows == {i \in 1..Len(positions) : positions[i].status = "ACTIVE"}

\* a tick just ran from an initialized service; its price is lastPrice'
TickStep == tickCount' = tickCount + 1 /\ initialized

\* the row is an anchor under either notion, in the state before the step
IsAnchorRow(i) == positions[i].level = anchorLevel \/ positions[i].is_anchor

\* C1: no tick closes a row whose level is the current anchorLevel or whose
\* is_anchor flag is set, and no sell notification of the tick names it.
C1_AnchorNotSoldInTick ==
    [][tickCount' = tickCount + 1 =>
        \A i \in ActiveRows :
            IsAnchorRow(i) =>
                /\ positions'[i].status = "ACTIVE"
                /\ \A j \in 1..Len(sold') : sold'[j].positionId # i]_vars

\* a tick whose price reached the sell trigger of an active anchor row, with
\* ladder and anchor untouched by the tick, so the row was spared
C1_Witness ==
    /\ lastOp = "tick" /\ ~newHigh /\ bought = <<>>
    /\ \E i \in ActiveRows :
        /\ IsAnchorRow(i)
        /\ GetSellTriggerPrice(Cur, positions[i].level) # Null
        /\ lastPrice >= GetSellTriggerPrice(Cur, positions[i].level)

\* C2: at most one row has is_anchor = true.
C2_AnchorUnique == Cardinality(AnchorFlagged(positions)) <= 1

\* C3: a row that has held anchor status is never closed.
C3_AnchorPermanent == \A i \in everAnchor : positions[i].status = "ACTIVE"

\* C4: a non-null anchorLevel names a level whose state is bought.
C4_AnchorLevelBought == anchorLevel # Null => levelStates[anchorLevel] = "bought"

\* C5: a tick whose price is a new high still closes every active non-anchor
\* row whose sell trigger, under the ladder and highest price before the
\* tick, the price reaches.
C5_SellBeforeHighUpdate ==
    [][(TickStep /\ lastPrice' > highestPrice) =>
        \A i \in ActiveRows :
            (/\ ~IsAnchorRow(i)
             /\ GetSellTriggerPrice(Cur, positions[i].level) # Null
             /\ lastPrice' >= GetSellTriggerPrice(Cur, positions[i].level))
            => positions'[i].status = "CLOSED"]_vars

\* a tick that recorded a new high, recalculated the ladder and sold
C5_Witness == lastOp = "tick" /\ newHigh /\ recalculated /\ sold # <<>>

C7_SellTriggerCascade ==
    initialized =>
        \A k \in Levels :
            GetSellTriggerPrice(Cur, k) =
                IF k = 1 THEN above[1] - 14
                ELSE IF k = 2 THEN highestPrice - 14
                ELSE below[k - 2] - 14

\* the highest price has advanced past the reference of the ladder
C7_Witness == initialized /\ highestPrice = 20300 /\ above[1] = 20600

\* C8: getAllTriggeredLevels(price, lastPrice) returns exactly the levels
\* crossed down through whose state is untouched or sold, each once, with
\* isRebuy set exactly for the sold ones.
CrossedLevels(price, last) ==
    {i \in Levels : /\ price <= below[i]
                     /\ (last = Null \/ last > below[i])
                     /\ levelStates[i] \in {"untouched", "sold"}}

C8_TriggeredLevelsExact ==
    initialized =>
        \A price \in Prices, last \in Prices \cup {Null} :
            LET res == GetAllTriggeredLevels(Cur, price, last)
            IN /\ {r.level : r \in Range(res)} = CrossedLevels(price, last)
               /\ Len(res) = Cardinality(CrossedLevels(price, last))
               /\ \A r \in Range(res) :
                    /\ r.isRebuy = (levelStates[r.level] = "sold")
                    /\ levelStates[r.level] # "bought"

\* some price pair crosses a sold, an untouched and a bought level at once
C8_Witness ==
    /\ initialized
    /\ \E price \in Prices, last \in Prices :
        /\ \E r \in Range(GetAllTriggeredLevels(Cur, price, last)) : r.isRebuy
        /\ \E r \in Range(GetAllTriggeredLevels(Cur, price, last)) : ~r.isRebuy
        /\ \E i \in Levels : /\ levelStates[i] = "bought"
                              /\ HasDroppedThrough(below[i], price, last)

\* C9: every level the tick's price crossed down through (state untouched
\* or sold) is bought at the end of the tick, has an active row, and its
\* buy count has risen by exactly 1.
C9_AllTriggeredProcessed ==
    [][TickStep =>
        \A l \in CrossedLevels(lastPrice', lastPrice) :
            /\ levelStates'[l] = "bought"
            /\ \E i \in 1..Len(positions') :
                    positions'[i].level = l /\ positions'[i].status = "ACTIVE"
            /\ buyCounts'[l] = buyCounts[l] + 1]_vars

\* a tick that bought at least two levels
C9_Witness == lastOp = "tick" /\ Len(bought) >= 2

\* C10: reference 200.00, observations 194.95, 199.00, 182.89: nothing is
\* bought at 194.95 (nor at 199.00); at 182.89 exactly levels 1 and 2 are
\* bought and the anchor ends at level 2.
C10_Scenario ==
    /\ scen \in {1, 2} => (bought = <<>> /\ positions = <<>> /\ anchorLevel = Null)
    /\ scen = 3 =>
        /\ below[1] = 19400 /\ below[2] = 18800
        /\ {bought[j].level : j \in 1..Len(bought)} = {1, 2}
        /\ Len(bought) = 2
        /\ {positions[i].level : i \in ActiveRows} = {1, 2}
        /\ \A l \in Levels : levelStates[l] = IF l \in {1, 2} THEN "bought" ELSE "untouched"
        /\ anchorLevel = 2

C10_Witness == scen = 3 /\ lastPrice = 18289

\* C11 as stated: every ladder price is the exact product rounded to the
\* nearest cent (half up), the below ladder strictly decreasing and the
\* above ladder strictly increasing, for every positive reference.
C11_LadderExactStrict ==
    lastOp = "calculateLevels" =>
        /\ \A i \in Levels :
            /\ 100 * below[i] - highestPrice * (100 - 3 * i) \in -49..50
            /\ 100 * above[i] - highestPrice * (100 + 3 * i) \in -49..50
        /\ \A i \in 1..9 : below[i] > below[i + 1] /\ above[i] < above[i + 1]

\* C11 amended: every ladder price is within half a cent of the exact
\* product, the below ladder never increases and the above ladder never
\* decreases with the index, and both are strict from a reference of 0.34.
C11_LadderRounded ==
    lastOp = "calculateLevels" =>
        /\ \A i \in Levels :
            /\ 100 * below[i] - highestPrice * (100 - 3 * i) \in -50..50
            /\ 100 * above[i] - highestPrice * (100 + 3 * i) \in -50..50
        /\ \A i \in 1..9 : below[i] >= below[i + 1] /\ above[i] <= above[i + 1]
        /\ highestPrice >= 34 =>
                \A i \in 1..9 : below[i] > below[i + 1] /\ above[i] < above[i + 1]

\* a ladder for reference 0.35 whose level 10, exactly 24.5 cents, was
\* stored as 0.24, next to level 9 at 0.26
C11_Witness ==
    lastOp = "calculateLevels" /\ highestPrice = 35 /\ below[10] = 24 /\ below[9] = 26

\* the engine state C12 names, without the last price
EngineState ==
    <<levelStates, buyCounts, anchorLevel, below, above, highestPrice, positions,
      accumulation>>

\* the tick emitted no decision event
NoDecision ==
    sold = <<>> /\ bought = <<>> /\ ~newHigh /\ ~recalculated

\* price p reaches the sell trigger of no active row off the anchor level
NoTriggerReached(p) ==
    \A i \in ActiveRows :
        positions[i].level # anchorLevel =>
            \/ GetSellTriggerPrice(Cur, positions[i].level) = Null
            \/ GetSellTriggerPrice(Cur, positions[i].level) > p

\* C12 as stated: a tick whose price crosses no untouched or sold level and
\* is not a new high emits no event and changes nothing, last price
\* included.
C12_IdempotentAll ==
    [][(TickStep /\ CrossedLevels(lastPrice', lastPrice) = {} /\ lastPrice' <= highestPrice)
        => (NoDecision' /\ UNCHANGED EngineState /\ UNCHANGED lastPrice)]_vars

\* C12 amended: on an initialized service a tick whose price crosses no
\* untouched or sold level, is not a new high and reaches the sell trigger
\* of no active position off the anchor level emits no event and leaves
\* level states, buy counts, anchor, ladder, highestPrice and both tables
\* unchanged; the last price becomes the observed price.
C12_IdempotentButLastPrice ==
    [][(/\ TickStep
        /\ CrossedLevels(lastPrice', lastPrice) = {}
        /\ lastPrice' <= highestPrice
        /\ NoTriggerReached(lastPrice'))
        => (NoDecision' /\ UNCHANGED EngineState)]_vars

\* a quiet tick: not a new high, every level at or above the price already
\* bought, and an active row off the anchor level whose trigger is above
\* the price
C12_Witness ==
    /\ lastOp = "tick" /\ initialized /\ tickCount >= 2
    /\ sold = <<>> /\ bought = <<>> /\ ~newHigh /\ ~recalculated
    /\ lastPrice <= highestPrice
    /\ \A l \in Levels : below[l] >= lastPrice => levelStates[l] = "bought"
    /\ NoTriggerReached(lastPrice)
    /\ \E i \in ActiveRows : positions[i].level # anchorLevel

\* closePosition just returned a sellDetails report
CloseStep == lastOp' = "closePosition" /\ thrown' = "none"

\* C13: the report of closePosition has unitsSold + unitsKept equal to the
\* units of the row, both non-negative, and unitsSold is
\* min(floor(dollar_amount / sellPrice), units).
C13_CloseConservation ==
    [][CloseStep =>
        \A j \in 1..Len(sold') :
            LET d == sold'[j]
                row == positions[d.positionId]
                planned == (row.dollar_amount * 100) \div d.sellPrice
            IN /\ d.unitsSold + d.unitsKept = row.units
               /\ positions'[d.positionId].units = row.units
               /\ d.unitsSold >= 0 /\ d.unitsKept >= 0
               /\ d.unitsSold = IF planned <= row.units THEN planned ELSE row.units]_vars

\* a close whose planned units exceeded the units of the row: all units
\* sold, none kept
C13_Witness ==
    /\ lastOp = "closePosition" /\ thrown = "none"
    /\ \E j \in 1..Len(sold) :
        LET row == positions[sold[j].positionId]
        IN /\ (row.dollar_amount * 100) \div sold[j].sellPrice > row.units
           /\ sold[j].unitsSold = row.units /\ row.units > 0
           /\ sold[j].unitsKept = 0

\* C14: closePosition leaves the row CLOSED at the sell price and appends
\* an accumulation record exactly when units are kept: the kept units at
\* the row's buy price, for the row's level.  100 units bought at 50.00
\* with planned 3000 and sold at 60.00: 50 sold, 50 kept, one record of 50
\* units at 50.00.
C14_CloseAccumulates ==
    [][CloseStep =>
        \A j \in 1..Len(sold') :
            LET d == sold'[j]
                row == positions[d.positionId]
                planned == (row.dollar_amount * 100) \div d.sellPrice
                kept == IF planned >= row.units THEN 0 ELSE row.units - planned
            IN /\ positions'[d.positionId].status = "CLOSED"
               /\ positions'[d.positionId].closed_price = d.sellPrice
               /\ d.unitsKept = kept
               /\ accumulation' =
                    IF kept > 0
                    THEN Append(accumulation,
                                [level |-> row.level, buy_price |-> row.price,
                                 units |-> kept, total_value |-> kept * row.price,
                                 original_position_id |-> d.positionId])
                    ELSE accumulation
               /\ (row.units = 100 /\ row.price = 5000 /\ row.dollar_amount = 3000
                        /\ d.sellPrice = 6000)
                    => /\ d.unitsSold = 50 /\ d.unitsKept = 50
                       /\ accumulation'[Len(accumulation')].units = 50
                       /\ accumulation'[Len(accumulation')].buy_price = 5000]_vars

\* the example: an active row of 100 units at 50.00, planned 3000, closed
\* at 60.00, with its single record of 50 units at 50.00
C14_Witness ==
    /\ lastOp = "closePosition" /\ thrown = "none"
    /\ Len(sold) = 1 /\ sold[1].unitsSold = 50 /\ sold[1].unitsKept = 50
    /\ positions[1].units = 100 /\ positions[1].price = 5000
    /\ positions[1].status = "CLOSED" /\ positions[1].closed_price = 6000
    /\ Len(accumulation) = 1
    /\ accumulation[1].units = 50 /\ accumulation[1].buy_price = 5000

\* the two serial executions of the calls from the state the first began in
FromBase ==
    [Cur EXCEPT !.levelStates = base[1].levelStates, !.buyCounts = base[1].buyCounts,
                !.anchorLevel = base[1].anchorLevel, !.below = base[1].below,
                !.above = base[1].above, !.highestPrice = base[1].highestPrice,
                !.lastPrice = base[1].lastPrice, !.positions = base[1].positions,
                !.accumulation = base[1].accumulation]

SerialOrder(c, d) ==
    EngineOf(ProcessPriceUpdate(ProcessPriceUpdate(FromBase, calls[c].price, Null),
                                calls[d].price, Null))

\* C15: when two processPriceUpdate calls have both returned, the engine
\* state and the tables are those of one of the two serial executions.
C15_Serializable ==
    (\A c \in CallIds : calls[c].pc = "done") =>
        EngineOf(Cur) \in {SerialOrder(1, 2), SerialOrder(2, 1)}

\* C16: one observed price, read by the monitoring tick of every service
\* instance of the process, adds at most one row per level to the
\* position table.
C16_OneBuyPerCrossing ==
    [][lastOp' = "monitoringRound" =>
        \A l \in Levels :
            Cardinality({i \in (Len(positions) + 1)..Len(positions') :
                            positions'[i].level = l}) <= 1]_vars

\* a processPriceUpdate call on a service that is not initialized
UninitializedTick == tickCount' = tickCount + 1 /\ ~initialized /\ highestPrice = Null

C18_BadPriceRejected ==
    [][(lastOp' = "badTick" /\ initialized) =>
        /\ UNCHANGED <<positions, accumulation, levelStates, buyCounts, anchorLevel,
                       below, above, highestPrice, lastPrice>>
        /\ thrown' # "none"]_vars

\* C19: closePosition (directly or through sellLevelAtPrice) leaves every
\* row that is CLOSED or flagged as anchor as it is, reports no sale of it
\* and adds no accumulation record for it.
C19_CloseRejectsClosedAndAnchor ==
    [][lastOp' \in {"closePosition", "sellLevelAtPrice"} =>
        \A i \in 1..Len(positions) :
            (positions[i].status # "ACTIVE" \/ positions[i].is_anchor) =>
                /\ positions'[i] = positions[i]
                /\ \A j \in 1..Len(sold') : sold'[j].positionId # i
                /\ \A j \in (Len(accumulation) + 1)..Len(accumulation') :
                        accumulation'[j].original_position_id # i]_vars

\* the in-memory part of an engine state
MemoryOf(e) ==
    [levelStates |-> e.levelStates, buyCounts |-> e.buyCounts,
     anchorLevel |-> e.anchorLevel, below |-> e.below, above |-> e.above,
     highestPrice |-> e.highestPrice, lastPrice |-> e.lastPrice]

\* C20: when a processPriceUpdate call has returned, with or without a
\* rejected store write on its way, level states, buy counts, anchor, ladder,
\* highest price and last price are those the tick reaches when every write
\* succeeds.
C20_MemoryCommitsDespiteFailure ==
    (calls[1].pc = "done" /\ calls[2].pc = "idle") =>
        MemoryOf(EngineOf(Cur)) =
            MemoryOf(EngineOf(ProcessPriceUpdate(FromBase, calls[1].price, Null)))

\* C21: the new-high notification of a tick is dispatched only when the
\* highest price it reports is already stored, and the call does not wait
\* for it: no call is ever suspended on the webhook, least of all with rows
\* its price would sell still active.
C21_NotifyAfterCommitNotAwaited ==
    \A c \in CallIds :
        /\ (InFlight(c) /\ newHigh) => highestPrice >= calls[c].price
        /\ calls[c].pc # "webhook"

\* levels with an ACTIVE row in the position table
ActiveLevels == {positions[i].level : i \in ActiveRows}

C23_RebuyOnlyFromSold ==
    [][/\ \A l \in Levels :
            (levelStates[l] = "sold" /\ levelStates'[l] = "bought") =>
                \E j \in 1..Len(bought') : bought'[j].level = l /\ bought'[j].isRebuy
       /\ \A j \in 1..Len(bought') :
            /\ bought'[j].isRebuy = (levelStates[bought'[j].level] = "sold")
            /\ \A k \in 1..Len(sold') : sold'[k].level # bought'[j].level]_vars

\* a tick that bought a sold level again and an untouched level for the
\* first time
C23_Witness ==
    /\ lastOp = "tick"
    /\ \E j \in 1..Len(bought) : bought[j].isRebuy /\ buyCounts[bought[j].level] >= 2
    /\ \E j \in 1..Len(bought) : ~bought[j].isRebuy /\ buyCounts[bought[j].level] = 1

\* C24: a tick that recalculates the ladder leaves a null anchor null and
\* moves a non-null anchor to a below-level of the new ladder whose price is
\* nearest the price the old anchor level had under the old ladder.
\* Reference 200.00, anchor level 2 at 188.00, new high 219.07: the anchor
\* becomes level 5 (186.21).
C24_AnchorRelocatedToClosest ==
    [][(TickStep /\ recalculated') =>
        /\ anchorLevel = Null => anchorLevel' = Null
        /\ anchorLevel # Null =>
            /\ anchorLevel' \in Levels
            /\ \A m \in Levels :
                    Abs(below'[anchorLevel'] - below[anchorLevel])
                        <= Abs(below'[m] - below[anchorLevel])
        /\ (highestPrice = 20000 /\ anchorLevel = 2 /\ below[2] = 18800
                /\ lastPrice' = 21907)
            => (anchorLevel' = 5 /\ below'[5] = 18621)]_vars

\* the example: the ladder of 219.07 with the anchor on level 5, the rows
\* bought under reference 200.00 at 182.89 still there
C24_Witness ==
    /\ lastOp = "tick" /\ recalculated /\ newHigh
    /\ highestPrice = 21907 /\ anchorLevel = 5 /\ below[5] = 18621
    /\ \E i \in 1..Len(positions) : positions[i].level = 2 /\ positions[i].price = 18289
    /\ tickCount = 2

\* the largest level index among the buy events of a tick
DeepestBought(evs) ==
    CHOOSE l \in {evs[j].level : j \in 1..Len(evs)} :
        \A j \in 1..Len(evs) : evs[j].level <= l

C26_RecalculateOnlyPastFirstAbove ==
    [][TickStep =>
        /\ (recalculated' \/ below' # below \/ above' # above) => lastPrice' >= above[1]
        /\ (lastPrice' > highestPrice /\ lastPrice' < above[1])
                => UNCHANGED <<below, above, anchorLevel>>]_vars

\* a tick stored a new high under the first above-level: the ladder is still
\* that of the old reference, with an anchor set
C26_Witness ==
    /\ lastOp = "tick" /\ newHigh /\ ~recalculated /\ ~testMode
    /\ highestPrice = 20300 /\ lastPrice = 20300
    /\ above[1] > 20300 /\ below # CalcBelow(highestPrice)
    /\ anchorLevel # Null

\* the ladders of reference h, each price the exact product rounded to the
\* nearest cent
LadderBelowOf(h) == [i \in Levels |-> (h * (100 - 3 * i) + 50) \div 100]
LadderAboveOf(h) == [i \in Levels |-> (h * (100 + 3 * i) + 50) \div 100]

\* C27 as stated: after every tick the below ladder is the one computed
\* from the current highestPrice.
C27_LadderTracksHighest ==
    lastOp = "tick" => (below = LadderBelowOf(highestPrice)
                        /\ above = LadderAboveOf(highestPrice))

\* C27 amended: a tick outside test mode whose price is a new high at or
\* above above[1] makes the price the highest price and the ladder the one
\* computed from it; every other tick leaves the ladder as it was, also when
\* it advances highestPrice to a new high below above[1].
C27_LadderOfLastRecalculation ==
    [][TickStep =>
        IF lastPrice' > highestPrice /\ ~testMode /\ lastPrice' >= above[1]
        THEN /\ highestPrice' = lastPrice'
             /\ below' = LadderBelowOf(lastPrice')
             /\ above' = LadderAboveOf(lastPrice')
        ELSE /\ UNCHANGED <<below, above>>
             /\ highestPrice' = IF lastPrice' > highestPrice /\ ~testMode
                                THEN lastPrice' ELSE highestPrice]_vars

\* a tick at 219.07 replaced the ladder by that of 219.07
C27_Witness ==
    /\ lastOp = "tick" /\ recalculated /\ newHigh /\ initialized
    /\ highestPrice = 21907 /\ lastPrice = 21907
    /\ below[1] = 21250 /\ above[1] = 22564
    /\ tickCount >= 2

C29_OneActiveRowPerLevel ==
    \A i, k \in ActiveRows : positions[i].level = positions[k].level => i = k

\* the level-state changes C30 allows
AllowedChanges ==
    {<<"untouched", "bought">>, <<"bought", "sold">>, <<"sold", "bought">>}

C31_BuyCountMonotone ==
    [][lastOp' \in {"tick", "resetStrategy", "testReset"} =>
        \A l \in Levels :
            /\ buyCounts'[l] >= buyCounts[l]
            /\ initialized =>
                buyCounts'[l] = buyCounts[l]
                    + Cardinality({j \in 1..Len(bought') : bought'[j].level = l})]_vars

\* C32: no step deletes a row or changes which buy a row stands for, and a
\* CLOSED row stays exactly as it is: no later tick reopens it, adds units
\* to it or reports a sale of it.
C32_ClosedIsTerminal ==
    [][/\ Len(positions') >= Len(positions)
       /\ \A i \in 1..Len(positions) :
            /\ positions'[i].level = positions[i].level
            /\ positions'[i].price = positions[i].price
            /\ positions[i].status = "CLOSED" =>
                    /\ positions'[i] = positions[i]
                    /\ \A j \in 1..Len(sold') : sold'[j].positionId # i]_vars

\* a tick bought a level again whose earlier row is CLOSED: the closed row
\* is still there and a newer ACTIVE row of the level follows it
C32_Witness ==
    /\ lastOp = "tick"
    /\ \E i, k \in 1..Len(positions) :
            /\ i < k /\ positions[i].level = positions[k].level
            /\ positions[i].status = "CLOSED" /\ positions[i].closed_price # Null
            /\ positions[k].status = "ACTIVE"
            /\ \E j \in 1..Len(bought) :
                    bought[j].level = positions[k].level /\ bought[j].isRebuy

\* C33: every buy at level k, first buy or rebuy and whatever the level's buy
\* count, spends the budget 3000 * k: the units bought are
\* floor(dollarAmount / price), their cost does not exceed the budget, and the
\* row the buy inserted carries that budget, those units and that cost
C33_BuyAmountIsLevelMultiple ==
    lastOp = "tick" =>
        \A j \in 1..Len(bought) :
            LET ev == bought[j]
            IN /\ ev.dollarAmount = BaseDollarAmount * ev.level
               /\ ev.units = (ev.dollarAmount * 100) \div ev.price
               /\ ev.units * ev.price <= ev.dollarAmount * 100
               /\ (ev.units + 1) * ev.price > ev.dollarAmount * 100
               /\ \E i \in 1..Len(positions) :
                       /\ positions[i].level = ev.level
                       /\ positions[i].status = "ACTIVE"
                       /\ positions[i].price = ev.price
                       /\ positions[i].dollar_amount = ev.dollarAmount
                       /\ positions[i].units = ev.units
                       /\ positions[i].total_value = ev.units * ev.price

C33_Witness ==
    /\ lastOp = "tick"
    /\ \E j, k \in 1..Len(bought) :
            /\ bought[j].isRebuy /\ buyCounts[bought[j].level] >= 2
            /\ ~bought[k].isRebuy /\ bought[k].level > 1
            /\ bought[j].units > 0

\* C34: after a completed tick the two anchor notions agree: an ACTIVE row
\* has is_anchor = true exactly when its level is anchorLevel, also after a
\* ladder recalculation has relocated anchorLevel.
C34_AnchorNotionsAgree ==
    lastOp = "tick" =>
        \A i \in ActiveRows :
            positions[i].is_anchor <=> positions[i].level = anchorLevel

C36_RecalculationKeepsStates ==
    [][/\ \A p \in Prices :
            LET u == UpdateHighestPrice(Cur, p)
            IN u.recalculated =>
                /\ u.highestPrice = p
                /\ u.below = CalcBelow(p) /\ u.above = CalcAbove(p)
                /\ [u EXCEPT !.below = below, !.above = above,
                             !.highestPrice = highestPrice,
                             !.anchorLevel = anchorLevel,
                             !.recalculated = FALSE] = Cur
       /\ (TickStep /\ recalculated') =>
            /\ buyCounts' = buyCounts
            /\ \A l \in Levels :
                    levelStates'[l] # levelStates[l] =>
                        \E k \in 1..Len(sold') : sold'[k].level = l
       /\ TickStep =>
            \A l \in Levels :
                levelStates[l] = "bought" =>
                    \A j \in 1..Len(bought') : bought'[j].level # l]_vars

\* the ladder was recalculated by an earlier tick; this tick fell through the
\* new prices of a shallower sold level, which it bought again, and of a
\* bought level, which it did not buy
C36_Witness ==
    /\ lastOp = "tick" /\ ~recalculated
    /\ highestPrice \notin (DbHighs \cup {FallbackHighestPrice})
    /\ \E i \in ActiveRows :
            /\ positions[i].price # lastPrice
            /\ levelStates[positions[i].level] = "bought"
            /\ lastPrice <= below[positions[i].level]
            /\ \E j \in 1..Len(bought) : bought[j].level < positions[i].level
            /\ \A j \in 1..Len(bought) : bought[j].level # positions[i].level

\* C37: a buy notification of a tick reports isAnchor = true and a null sell
\* trigger exactly when its level is the anchor level at the end of the
\* tick; the first buy ever and a buy that moves the anchor deeper are so
\* reported.
C37_BuyNotificationTellsAnchor ==
    lastOp = "tick" =>
        \A j \in 1..Len(bought) :
            /\ bought[j].isAnchor <=> bought[j].level = anchorLevel
            /\ bought[j].sellTriggerPrice = Null <=> bought[j].level = anchorLevel

\* the sell trigger of a level under the current ladder and highest price
Trigger(i) == GetSellTriggerPrice(Cur, i)

\* C38 as stated: outside test mode the sell triggers strictly decrease with
\* the level index, also after highestPrice advanced without a
\* recalculation.
C38_TriggersStrictlyDecrease ==
    (lastOp \in {"calculateLevels", "updateHighestPrice"} /\ ~testMode) =>
        \A i \in 1..9 : Trigger(i) > Trigger(i + 1)

\* C38 amended: outside test mode the sell triggers never increase with the
\* level index, and strictly decrease once the highest price is 0.34 or
\* more, also after highestPrice advanced without a recalculation.
C38_TriggersDecrease ==
    (lastOp \in {"calculateLevels", "updateHighestPrice"} /\ ~testMode) =>
        /\ \A i \in 1..9 : Trigger(i) >= Trigger(i + 1)
        /\ highestPrice >= 34 => \A i \in 1..9 : Trigger(i) > Trigger(i + 1)

\* highestPrice advanced to one cent under the first level above without a
\* recalculation: the triggers of levels 1 and 2 are one cent apart
C38_Witness ==
    /\ lastOp = "updateHighestPrice" /\ ~recalculated /\ ~testMode
    /\ highestPrice >= 34
    /\ highestPrice = above[1] - 1
    /\ below[1] # RoundCents(highestPrice * (100 - LevelStepPercent))
    /\ Trigger(1) = Trigger(2) + 1

\* C39: at most one accumulation record is ever created for a row, also
\* when the update closing the row failed after the accumulation insert and
\* a later tick sold the row again; and while no call is in flight and none
\* has failed, a row with a record is CLOSED.
C39_OneAccumulationPerClosedRow ==
    /\ \A a, b \in 1..Len(accumulation) :
            accumulation[a].original_position_id = accumulation[b].original_position_id
                => a = b
    /\ (\A c \in CallIds : ~InFlight(c) /\ ~calls[c].failed) =>
            \A a \in 1..Len(accumulation) :
                positions[accumulation[a].original_position_id].status = "CLOSED"

\* C40: initialize() takes effect at most once, also when it is invoked
\* again while an earlier invocation awaits the database: at most one
\* monitoring interval is started, and when an invocation completes every
\* buy count is the number of ACTIVE rows of its level, each counted once.
C40_InitializeTakesEffectOnce ==
    /\ MonitoringIntervals <= 1
    /\ lastOp = "initializeRebuildReturns" =>
            \A l \in Levels :
                buyCounts[l] = Cardinality({i \in ActiveRows : positions[i].level = l})

====
